---- MODULE Spec2Model ----
(***************************************************************************)
(* The AS7331 driver (Software/Driver/src/as7331.ts) as a state machine.   *)
(*                                                                         *)
(* The driver object, the device behind the bus and the clock are the     *)
(* state.  Every async method is cut at its awaits: one action per bus     *)
(* operation or timer that the method awaits, each action being the        *)
(* completion of that operation followed by the synchronous code that runs *)
(* up to the next await.  A caller is a logical thread that awaits each of *)
(* its calls before making the next one; Spec has one caller (serialized   *)
(* calls), SpecOverlap has two (calls that overlap on one instance), and   *)
(* LiveSpec is one call under the assumption that what it awaits completes.*)
(*                                                                         *)
(* Numbers are exact: irradiance and temperature are kept as fractions     *)
(* <<numerator, denominator>> of the quotient the code evaluates.          *)
(***************************************************************************)
EXTENDS Integers, Sequences, FiniteSets, TLC

(* ---------------------------------------------------------------------- *)
(* Bounds of the model                                                    *)
(* ---------------------------------------------------------------------- *)

\* number of init()/read() invocations made on the instance in one behaviour
MaxCalls == 3

\* a timer may fire this many ms after its due time (setTimeout is a lower bound)
MaxLate == 495

\* SpecOverlap: bus operations and delays explored per call
MaxOverlapOps == 6

\* largest magnitude of a code given to init() in SpecCodes
MaxCode == 20

(* ---------------------------------------------------------------------- *)
(* Program constants                                                       *)
(* ---------------------------------------------------------------------- *)

REG_OSR    == 0
REG_AGEN   == 1
REG_CREG1  == 2
REG_CREG3  == 4
REG_STATUS == 1
REG_TEMP   == 2

OSR_DOS_CONFIG == 4
OSR_DOS_MEAS   == 6
OSR_SS         == 8

STATUS_NDATA == 4

\* sensitivities in thousandths: 304.0e-3, 398.0e-3, 855.0e-3
SENS_A == 304
SENS_B == 398
SENS_C == 855
SensScale == 1000

\* literals of init() and read()
NibbleMask    == 15
ExpectedId    == 2
SettleMs      == 10
CmdModeCreg3  == 0
MarginMs      == 20
PollBudgetMs  == 500
PollEveryMs   == 5
BlockLen      == 8
TempScale     == 256
TempOffset    == 40

(* ---------------------------------------------------------------------- *)
(* Bit operations on bytes, as JavaScript's & | >> << act on small ints    *)
(* ---------------------------------------------------------------------- *)

RECURSIVE BitAnd(_, _)
BitAnd(a, b) ==
    IF a = 0 \/ b = 0 THEN 0
    ELSE (IF a % 2 = 1 /\ b % 2 = 1 THEN 1 ELSE 0) + 2 * BitAnd(a \div 2, b \div 2)

RECURSIVE BitOr(_, _)
BitOr(a, b) ==
    IF a = 0 THEN b
    ELSE IF b = 0 THEN a
    ELSE (IF a % 2 = 1 \/ b % 2 = 1 THEN 1 ELSE 0) + 2 * BitOr(a \div 2, b \div 2)

RECURSIVE Pow2(_)
Pow2(n) == IF n = 0 THEN 1 ELSE 2 * Pow2(n - 1)

ShiftRight(a, n) == a \div Pow2(n)
ShiftLeft(a, n)  == a * Pow2(n)

\* mutant of Mask4: the code clamped into 0..15 instead of masked
Mask4_Clamp(x) == IF x > NibbleMask THEN NibbleMask ELSE IF x < 0 THEN 0 ELSE x

\* x & 0x0F on a (possibly negative) 32-bit integer: the low four bits of
\* the two's complement pattern, which is x modulo 16
Mask4(x) == x % (NibbleMask + 1)

(* ---------------------------------------------------------------------- *)
(* Input domains                                                           *)
(* ---------------------------------------------------------------------- *)

\* logical callers; each awaits its own call before making another
Callers == {"a", "b"}

\* arguments given to init(): in range, above 15 and negative
InitArgs == {<<7, 7>>, <<19, -3>>}

\* integer codes given to init() where the codes alone are examined
CodeInputs == (0 - MaxCode)..MaxCode

\* bytes the device may answer to a read of address 0x01 (identity / status)
AgenValues   == {33, 81, 18}
StatusValues == {0, 4, 11, 12}

\* contents of the 8 result bytes the device may answer to the block read
Blocks ==
    { <<0, 0, 0, 0, 0, 0, 0, 0>>,
      <<0, 1, 232, 3, 1, 0, 255, 255>> }

\* raw counts, sensitivities (in thousandths) and result bytes given to the
\* conversion helpers where they alone are examined
RawInputs  == {0, 1, 2, 255, 256, 257, 1000, 32768, 65535}
SensInputs == {0, 1, SENS_A, SENS_B, SENS_C}
ByteInputs == {0, 1, 40, 128, 255}

DevStates == {"Off", "Config", "Meas"}

\* the value of a field declared with ! and not yet assigned
Undefined == -1

(* ---------------------------------------------------------------------- *)
(* State                                                                   *)
(* ---------------------------------------------------------------------- *)

VARIABLES
    i2c,                \* this.i2c: 0 while unassigned, else the handle's number
    openHandles,        \* bus handles opened and not closed
    gainCode,           \* this.gainCode
    timeCode,           \* this.timeCode
    gainFactor,         \* this.gainFactor
    integrationTimeMs,  \* this.integrationTimeMs
    dev,                \* the device: operating state and control registers
    now,                \* Date.now(), in ms
    calls,              \* invocations made so far
    lastEnded,          \* the call that ended last: its kind and outcome
    call                \* per caller: the call in flight or last ended

vars == <<i2c, openHandles, gainCode, timeCode, gainFactor, integrationTimeMs,
          dev, now, calls, lastEnded, call>>

driver == <<i2c, openHandles, gainCode, timeCode, gainFactor, integrationTimeMs>>

NoValue == <<0, 0>>
NoResult == [uva |-> NoValue, uvb |-> NoValue, uvc |-> NoValue, temperature |-> NoValue]

\* a caller with no call made yet
NoCall ==
    [ pc       |-> "idle",     \* the await the call is suspended at
      kind     |-> "none",     \* "init" or "read"
      after    |-> [kind |-> "none", ok |-> TRUE],  \* the call that had ended last
      entry    |-> [dos |-> "Off", gainCode |-> Undefined, timeCode |-> Undefined,
                    gainFactor |-> Undefined, integrationTimeMs |-> Undefined],
                               \* the device state and the stored parameters the call found
      gainArg  |-> 0,          \* init's arguments
      timeArg  |-> 0,
      agen     |-> 0,          \* init's local agen
      creg1    |-> 0,          \* init's local creg1
      trigAt   |-> 0,          \* Date.now() when read's trigger write completed
      start    |-> 0,          \* waitForData's local start
      wake     |-> 0,          \* due time of the pending timer
      buf      |-> <<>>,       \* read's local buf
      raw      |-> 0,          \* rawToIrradiance's arguments and return value
      sens     |-> 0,
      value    |-> NoValue,
      result   |-> NoResult,   \* the value read() resolved with
      err      |-> "none",     \* what the call rejected with
      warn     |-> {},         \* console.warn lines of the call
      sawNdata |-> FALSE,      \* some poll of the call saw NDATA set
      polledAt |-> 0,          \* Date.now() - start when the last poll was issued
      crossed  |-> {},         \* registers accessed in a device state not theirs
      trace    |-> <<>> ]      \* bus operations and delays the call issued, in order

Ended == {"idle", "done", "failed"}

InFlight(c) == call[c].pc \notin Ended

Quiescent == \A c \in Callers : ~InFlight(c)

Init ==
    /\ i2c = 0
    /\ openHandles = 0
    /\ gainCode = Undefined
    /\ timeCode = Undefined
    /\ gainFactor = Undefined
    /\ integrationTimeMs = Undefined
    /\ dev \in [dos : DevStates, creg1 : {Undefined}, creg3 : {Undefined}]
    /\ now = 0
    /\ calls = 0
    /\ lastEnded = [kind |-> "none", ok |-> TRUE]
    /\ call = [c \in Callers |-> NoCall]

(* ---------------------------------------------------------------------- *)
(* The device and the bus                                                  *)
(* ---------------------------------------------------------------------- *)

\* DOS field (bits 2:1) of a byte written to the OSR
DosOf(v) ==
    LET dos == ShiftRight(v, 1) % 4
    IN  IF dos = 2 THEN "Config" ELSE IF dos = 3 THEN "Meas" ELSE "Off"

\* the device state in which a register of the driver's map is addressable
RegState(reg) ==
    IF reg \in {"AGEN", "CREG1", "CREG3"} THEN {"Config"}
    ELSE IF reg \in {"STATUS", "TEMP"} THEN {"Meas"}
    ELSE DevStates

RegAddr(reg) ==
    CASE reg = "OSR"    -> REG_OSR
      [] reg = "AGEN"   -> REG_AGEN
      [] reg = "CREG1"  -> REG_CREG1
      [] reg = "CREG3"  -> REG_CREG3
      [] reg = "STATUS" -> REG_STATUS
      [] reg = "TEMP"   -> REG_TEMP
      [] OTHER          -> Undefined

\* one entry of a call's trace
Op(o, reg, v, ok) ==
    [op |-> o, reg |-> reg, addr |-> RegAddr(reg), val |-> v, ok |-> ok]

\* the call's record with the operation logged; an operation on a register
\* that the device's present state does not map is noted in crossed
Log(r, entry) ==
    [r EXCEPT !.trace = Append(@, entry),
              !.crossed = IF dev.dos \in RegState(entry.reg) THEN @ ELSE @ \cup {entry.reg}]

\* the device after a successful byte write
DevWrite(reg, v) ==
    IF reg = "OSR" THEN [dev EXCEPT !.dos = DosOf(v)]
    ELSE IF dev.dos # "Config" THEN dev
    ELSE IF reg = "CREG1" THEN [dev EXCEPT !.creg1 = v]
    ELSE IF reg = "CREG3" THEN [dev EXCEPT !.creg3 = v]
    ELSE dev

\* a timer due at `wake` fires now or late
Fired(wake) == { (IF now > wake THEN now ELSE wake) + late : late \in {0, MaxLate} }

\* the call of caller c has ended
Ends(c, ok) == lastEnded' = [kind |-> call[c].kind, ok |-> ok]

\* the record of a call at its invocation
NewCall(kind) ==
    [NoCall EXCEPT !.kind = kind, !.after = lastEnded,
                   !.entry = [dos |-> dev.dos, gainCode |-> gainCode, timeCode |-> timeCode,
                              gainFactor |-> gainFactor,
                              integrationTimeMs |-> integrationTimeMs]]

\* mutant of Fail: the rejection is caught and the device put back into
\* Configuration state before it is rethrown
Fail_Rollback(c, entry) ==
    /\ call' = [call EXCEPT ![c] =
                  [Log(Log(@, entry), Op("writeByte", "OSR", OSR_DOS_CONFIG, TRUE))
                     EXCEPT !.pc = "failed", !.err = "bus"]]
    /\ dev' = DevWrite("OSR", OSR_DOS_CONFIG)
    /\ Ends(c, FALSE)
    /\ UNCHANGED <<driver, now, calls>>

\* the awaited bus operation rejects: the call rejects with it, nothing
\* is caught or undone
Fail(c, entry) ==
    /\ call' = [call EXCEPT ![c] =
                  [Log(@, entry) EXCEPT !.pc = "failed", !.err = "bus"]]
    /\ Ends(c, FALSE)
    /\ UNCHANGED <<driver, dev, now, calls>>

(* ---------------------------------------------------------------------- *)
(* Conversion helpers                                                      *)
(* ---------------------------------------------------------------------- *)

\* mutant of readUInt16LE: the bytes taken high byte first
readUInt16LE_BigEndian(buf, off) == ShiftLeft(buf[off + 1], 8) + buf[off + 2]

\* buf.readUInt16LE(off)
readUInt16LE(buf, off) == buf[off + 1] + ShiftLeft(buf[off + 2], 8)

\* mutants of rawToIrradiance: the gain left out of the divisor; the
\* integration time left out; the guard on the sensitivity left out
rawToIrradiance_NoGain(raw, sensitivity, gain, tint) ==
    IF raw = 0 \/ sensitivity = 0 THEN <<0, 1, 1>>
    ELSE <<raw * SensScale, sensitivity, tint>>

rawToIrradiance_NoTime(raw, sensitivity, gain, tint) ==
    IF raw = 0 \/ sensitivity = 0 THEN <<0, 1, 1>>
    ELSE <<raw * SensScale, sensitivity, gain>>

rawToIrradiance_NoSensGuard(raw, sensitivity, gain, tint) ==
    IF raw = 0 THEN <<0, 1, 1>>
    ELSE <<raw * SensScale, sensitivity, gain * tint>>

\* line 181-184: 0 when raw or sensitivity is 0, else the quotient
\* raw / (sensitivity * gainFactor * integrationTimeMs). The quotient n / (s * k)
\* is the triple <<n, s, k>>, sensitivity in thousandths: the divisor is kept
\* in two factors, each of which fits a 32-bit integer.
rawToIrradiance(raw, sensitivity, gain, tint) ==
    IF raw = 0 \/ sensitivity = 0 THEN <<0, 1, 1>>
    ELSE <<raw * SensScale, sensitivity, gain * tint>>

\* (raw / 256) - 40
rawToTemperature(raw) == <<raw - TempOffset * TempScale, TempScale>>

\* the object read() returns for the bytes of buf
Decode(buf, gain, tint) ==
    [ uva         |-> rawToIrradiance(readUInt16LE(buf, 2), SENS_A, gain, tint),
      uvb         |-> rawToIrradiance(readUInt16LE(buf, 4), SENS_B, gain, tint),
      uvc         |-> rawToIrradiance(readUInt16LE(buf, 6), SENS_C, gain, tint),
      temperature |-> rawToTemperature(readUInt16LE(buf, 0)) ]

(* ---------------------------------------------------------------------- *)
(* init(gainCode, timeCode)                                                *)
(* ---------------------------------------------------------------------- *)

\* the caller invokes init(g, t): openPromisified is issued
CallInit(c, g, t) ==
    /\ ~InFlight(c)
    /\ calls < MaxCalls
    /\ calls' = calls + 1
    /\ now' = IF Quiescent THEN 0 ELSE now    \* only differences of Date.now() are used
    /\ call' = [call EXCEPT ![c] =
                  [NewCall("init") EXCEPT !.pc = "i_open", !.gainArg = g, !.timeArg = t]]
    /\ UNCHANGED <<driver, dev, lastEnded>>

\* mutant of FactorOf: the arguments of Math.pow exchanged
FactorOf_Swapped(code) == code * code

\* line 98-99: Math.pow(2, code)
FactorOf(code) == Pow2(code)

\* line 94-102: the open resolves; the codes are masked and stored, the
\* factors derived, and the OSR write is issued
InitOpen(c) ==
    /\ call[c].pc = "i_open"
    /\ \/ Fail(c, Op("open", "none", 0, FALSE))
       \/ /\ i2c' = openHandles + 1
          /\ openHandles' = openHandles + 1
          /\ gainCode' = Mask4(call[c].gainArg)
          /\ timeCode' = Mask4(call[c].timeArg)
          /\ gainFactor' = FactorOf(gainCode')
          /\ integrationTimeMs' = FactorOf(timeCode')
          /\ call' = [call EXCEPT ![c] =
                        [Log(@, Op("open", "none", 0, TRUE)) EXCEPT !.pc = "i_osr"]]
          /\ UNCHANGED <<dev, now, calls, lastEnded>>

\* line 102-103: writeOSR(OSR_DOS_CONFIG) completes; delay(10) starts
InitWriteOSR(c) ==
    /\ call[c].pc = "i_osr"
    /\ \/ Fail(c, Op("writeByte", "OSR", OSR_DOS_CONFIG, FALSE))
       \/ /\ dev' = DevWrite("OSR", OSR_DOS_CONFIG)
          /\ call' = [call EXCEPT ![c] =
                        [Log(Log(@, Op("writeByte", "OSR", OSR_DOS_CONFIG, TRUE)),
                             Op("delay", "none", SettleMs, TRUE))
                           EXCEPT !.pc = "i_settle", !.wake = now + SettleMs]]
          /\ UNCHANGED <<driver, now, calls, lastEnded>>

\* line 103-106: the settle delay elapses; the AGEN read is issued
InitSettle(c) ==
    /\ call[c].pc = "i_settle"
    /\ \E t \in Fired(call[c].wake) :
          /\ now' = t
          /\ call' = [call EXCEPT ![c] = [@ EXCEPT !.pc = "i_agen"]]
    /\ UNCHANGED <<driver, dev, calls, lastEnded>>

\* mutant of PackCreg1: the nibbles swapped
PackCreg1_Swapped(gain, time) == BitOr(ShiftLeft(time, 4), gain)

\* line 116: (gainCode << 4) | timeCode
PackCreg1(gain, time) == BitOr(ShiftLeft(gain, 4), time)

\* mutant of AfterAgen: an unexpected device id rejects the call
AfterAgen_Throws(r, agen) ==
    LET deviceId == BitAnd(ShiftRight(agen, 4), NibbleMask)
    IN  IF deviceId # ExpectedId
        THEN [r EXCEPT !.pc = "failed", !.err = "id", !.agen = agen]
        ELSE [r EXCEPT !.pc = "i_creg1", !.agen = agen,
                       !.creg1 = PackCreg1(gainCode, timeCode)]

\* mutant of AfterAgen: the id taken from the lower nibble
AfterAgen_LowNibble(r, agen) ==
    LET deviceId == BitAnd(agen, NibbleMask)
    IN  [r EXCEPT !.pc = "i_creg1",
                  !.agen = agen,
                  !.warn = IF deviceId # ExpectedId THEN @ \cup {"id"} ELSE @,
                  !.creg1 = PackCreg1(gainCode, timeCode)]

\* line 107-116: the id check on agen (a warning, nothing more) and the
\* packing of creg1
AfterAgen(r, agen) ==
    LET deviceId == BitAnd(ShiftRight(agen, 4), NibbleMask)
    IN  [r EXCEPT !.pc = "i_creg1",
                  !.agen = agen,
                  !.warn = IF deviceId # ExpectedId THEN @ \cup {"id"} ELSE @,
                  !.creg1 = PackCreg1(gainCode, timeCode)]

\* line 106-117: the AGEN read resolves; the device id is checked, creg1
\* is packed and its write issued
InitReadAgen(c) ==
    /\ call[c].pc = "i_agen"
    /\ \/ Fail(c, Op("readByte", "AGEN", 0, FALSE))
       \/ \E agen \in AgenValues :
            /\ call' = [call EXCEPT ![c] =
                          AfterAgen(Log(@, Op("readByte", "AGEN", 0, TRUE)), agen)]
            /\ UNCHANGED <<driver, dev, now, calls, lastEnded>>

\* line 117-120: the CREG1 write completes; the CREG3 write is issued
InitWriteCreg1(c) ==
    /\ call[c].pc = "i_creg1"
    /\ \/ Fail(c, Op("writeByte", "CREG1", call[c].creg1, FALSE))
       \/ /\ dev' = DevWrite("CREG1", call[c].creg1)
          /\ call' = [call EXCEPT ![c] =
                        [Log(@, Op("writeByte", "CREG1", call[c].creg1, TRUE))
                           EXCEPT !.pc = "i_creg3"]]
          /\ UNCHANGED <<driver, now, calls, lastEnded>>

\* line 120-126: the CREG3 write completes; init() resolves
InitWriteCreg3(c) ==
    /\ call[c].pc = "i_creg3"
    /\ \/ Fail(c, Op("writeByte", "CREG3", CmdModeCreg3, FALSE))
       \/ /\ dev' = DevWrite("CREG3", CmdModeCreg3)
          /\ call' = [call EXCEPT ![c] =
                        [Log(@, Op("writeByte", "CREG3", CmdModeCreg3, TRUE))
                           EXCEPT !.pc = "done"]]
          /\ Ends(c, TRUE)
          /\ UNCHANGED <<driver, now, calls>>

(* ---------------------------------------------------------------------- *)
(* read()                                                                  *)
(* ---------------------------------------------------------------------- *)

\* mutant of CallRead: read() refuses to start while a call is in flight
CallRead_Guarded(c) ==
    /\ Quiescent
    /\ calls < MaxCalls
    /\ calls' = calls + 1
    /\ now' = 0
    /\ call' = [call EXCEPT ![c] =
                  IF i2c = 0
                  THEN [NewCall("read") EXCEPT !.pc = "failed", !.err = "TypeError"]
                  ELSE [NewCall("read") EXCEPT !.pc = "r_trigger"]]
    /\ lastEnded' = IF i2c = 0 THEN [kind |-> "read", ok |-> FALSE] ELSE lastEnded
    /\ UNCHANGED <<driver, dev>>

\* mutant of CallRead: read() opens the bus itself when no init() has
CallRead_OpensBus(c) ==
    /\ ~InFlight(c)
    /\ calls < MaxCalls
    /\ calls' = calls + 1
    /\ now' = IF Quiescent THEN 0 ELSE now
    /\ call' = [call EXCEPT ![c] = [NewCall("read") EXCEPT !.pc = "r_trigger"]]
    /\ UNCHANGED <<driver, dev, lastEnded>>

\* the caller invokes read(): writeOSR is issued on this.i2c, which throws
\* a TypeError when no init() has assigned it
CallRead(c) ==
    /\ ~InFlight(c)
    /\ calls < MaxCalls
    /\ calls' = calls + 1
    /\ now' = IF Quiescent THEN 0 ELSE now
    /\ call' = [call EXCEPT ![c] =
                  IF i2c = 0
                  THEN [NewCall("read") EXCEPT !.pc = "failed", !.err = "TypeError"]
                  ELSE [NewCall("read") EXCEPT !.pc = "r_trigger"]]
    /\ lastEnded' = IF i2c = 0 THEN [kind |-> "read", ok |-> FALSE] ELSE lastEnded
    /\ UNCHANGED <<driver, dev>>

\* mutants of TriggerValue: the trigger bit left out; the state selector left out
TriggerValue_NoSS == OSR_DOS_MEAS
TriggerValue_NoState == OSR_SS

\* line 141: OSR_DOS_MEAS | OSR_SS
TriggerValue == BitOr(OSR_DOS_MEAS, OSR_SS)

\* mutant of ConversionWaitMs: the integration time left out
ConversionWaitMs_MarginOnly == MarginMs

\* line 144: this.integrationTimeMs + 20
ConversionWaitMs == integrationTimeMs + MarginMs

\* line 141-144: writeOSR(OSR_DOS_MEAS | OSR_SS) completes; the conversion
\* delay starts
ReadTrigger(c) ==
    LET value == TriggerValue
    IN  /\ call[c].pc = "r_trigger"
        /\ \/ Fail(c, Op("writeByte", "OSR", value, FALSE))
           \/ /\ dev' = DevWrite("OSR", value)
              /\ call' = [call EXCEPT ![c] =
                            [Log(Log(@, Op("writeByte", "OSR", value, TRUE)),
                                 Op("delay", "none", ConversionWaitMs, TRUE))
                               EXCEPT !.pc = "r_wait", !.trigAt = now,
                                      !.wake = now + ConversionWaitMs]]
              /\ UNCHANGED <<driver, now, calls, lastEnded>>

\* mutant of WaitLoop: the timeout rejects the call
WaitLoop_Throws(r, t) ==
    IF t - r.start < PollBudgetMs
    THEN [r EXCEPT !.pc = "r_status", !.polledAt = t - r.start]
    ELSE [r EXCEPT !.pc = "failed", !.err = "timeout"]

\* mutant of WaitLoop: the budget test admits the instant the budget ends
WaitLoop_Inclusive(r, t) ==
    IF t - r.start <= PollBudgetMs
    THEN [r EXCEPT !.pc = "r_status", !.polledAt = t - r.start]
    ELSE [r EXCEPT !.pc = "r_block", !.warn = @ \cup {"timeout"}]

\* waitForData's loop head at time t (line 213, 218): poll again within the
\* budget, else warn and go on to the block read
WaitLoop(r, t) ==
    IF t - r.start < PollBudgetMs
    THEN [r EXCEPT !.pc = "r_status", !.polledAt = t - r.start]
    ELSE [r EXCEPT !.pc = "r_block", !.warn = @ \cup {"timeout"}]

\* line 144-147, 212-214: the conversion delay elapses; waitForData(500)
\* takes start and enters its loop
ReadWait(c) ==
    /\ call[c].pc = "r_wait"
    /\ \E t \in Fired(call[c].wake) :
          /\ now' = t
          /\ call' = [call EXCEPT ![c] =
                        WaitLoop([@ EXCEPT !.start = t], t)]
    /\ UNCHANGED <<driver, dev, calls, lastEnded>>

\* line 215: status & STATUS_NDATA, taken as a truth value
NdataSet(status) == BitAnd(status, STATUS_NDATA) # 0

\* line 214-216: the STATUS read resolves; NDATA set ends the wait and the
\* block read is issued, else delay(5) starts
WaitStatus(c) ==
    /\ call[c].pc = "r_status"
    /\ \/ Fail(c, Op("readByte", "STATUS", 0, FALSE))
       \/ \E status \in StatusValues :
            /\ call' = [call EXCEPT ![c] =
                          IF NdataSet(status)
                          THEN [Log(@, Op("readByte", "STATUS", 0, TRUE))
                                  EXCEPT !.pc = "r_block",
                                         !.sawNdata = (status \div 4) % 2 = 1]
                          ELSE [Log(Log(@, Op("readByte", "STATUS", 0, TRUE)),
                                    Op("delay", "none", PollEveryMs, TRUE))
                                  EXCEPT !.pc = "r_poll", !.wake = now + PollEveryMs,
                                         !.sawNdata = @ \/ (status \div 4) % 2 = 1]]
            /\ UNCHANGED <<driver, dev, now, calls, lastEnded>>

\* line 216, 213: the poll delay elapses; back to the loop head
WaitPoll(c) ==
    /\ call[c].pc = "r_poll"
    /\ \E t \in Fired(call[c].wake) :
          /\ now' = t
          /\ call' = [call EXCEPT ![c] =
                        WaitLoop(@, t)]
    /\ UNCHANGED <<driver, dev, calls, lastEnded>>

\* line 151-160: the block read resolves into buf; the four raw values are
\* decoded and writeOSR(OSR_DOS_CONFIG) is issued
ReadBlock(c) ==
    /\ call[c].pc = "r_block"
    /\ \/ Fail(c, Op("readI2cBlock", "TEMP", BlockLen, FALSE))
       \/ \E bytes \in Blocks :
            /\ call' = [call EXCEPT ![c] =
                          [Log(@, Op("readI2cBlock", "TEMP", BlockLen, TRUE))
                             EXCEPT !.pc = "r_osr", !.buf = bytes]]
            /\ UNCHANGED <<driver, dev, now, calls, lastEnded>>

\* line 160-168: the OSR write completes; the raw values are converted with
\* the stored gain and time and read() resolves
ReadWriteOSR(c) ==
    /\ call[c].pc = "r_osr"
    /\ \/ Fail(c, Op("writeByte", "OSR", OSR_DOS_CONFIG, FALSE))
       \/ /\ dev' = DevWrite("OSR", OSR_DOS_CONFIG)
          /\ call' = [call EXCEPT ![c] =
                        [Log(@, Op("writeByte", "OSR", OSR_DOS_CONFIG, TRUE))
                           EXCEPT !.pc = "done",
                                  !.result = Decode(call[c].buf, gainFactor, integrationTimeMs)]]
          /\ Ends(c, TRUE)
          /\ UNCHANGED <<driver, now, calls>>

(* ---------------------------------------------------------------------- *)
(* The conversion helpers on their own                                     *)
(* ---------------------------------------------------------------------- *)

\* line 181-184: rawToIrradiance(raw, sensitivity) is called and returns;
\* it reads the stored gain and time and changes nothing
ApplyRawToIrradiance(c, raw, sensitivity) ==
    /\ ~InFlight(c)
    /\ call' = [call EXCEPT ![c] =
                  [NewCall("rawToIrradiance")
                     EXCEPT !.pc = "done", !.raw = raw, !.sens = sensitivity,
                            !.value = rawToIrradiance(raw, sensitivity,
                                                      gainFactor, integrationTimeMs)]]
    /\ UNCHANGED <<driver, dev, now, calls, lastEnded>>

\* line 153-168: the bytes of a block are decoded and converted
ApplyDecode(c, bytes) ==
    /\ ~InFlight(c)
    /\ call' = [call EXCEPT ![c] =
                  [NewCall("decode")
                     EXCEPT !.pc = "done", !.buf = bytes,
                            !.result = Decode(bytes, gainFactor, integrationTimeMs)]]
    /\ UNCHANGED <<driver, dev, now, calls, lastEnded>>

(* ---------------------------------------------------------------------- *)
(* Specifications                                                          *)
(* ---------------------------------------------------------------------- *)

\* the caller makes a call
Invoke(c) ==
    \/ \E a \in InitArgs : CallInit(c, a[1], a[2])
    \/ CallRead(c)

\* the call in flight of caller c resumes at its await
Step(c) ==
    \/ InitOpen(c)
    \/ InitWriteOSR(c)
    \/ InitSettle(c)
    \/ InitReadAgen(c)
    \/ InitWriteCreg1(c)
    \/ InitWriteCreg3(c)
    \/ ReadTrigger(c)
    \/ ReadWait(c)
    \/ WaitStatus(c)
    \/ WaitPoll(c)
    \/ ReadBlock(c)
    \/ ReadWriteOSR(c)

\* serialized calls: one caller
Next == Invoke("a") \/ Step("a")

Spec == Init /\ [][Next]_vars


\* the instance after init() with its default arguments has resolved
InitReady ==
    /\ i2c = 1
    /\ openHandles = 1
    /\ gainCode = 7
    /\ timeCode = 7
    /\ gainFactor = Pow2(7)
    /\ integrationTimeMs = Pow2(7)
    /\ dev = [dos |-> "Config", creg1 |-> BitOr(ShiftLeft(7, 4), 7), creg3 |-> CmdModeCreg3]
    /\ now = 0
    /\ calls = 0
    /\ lastEnded = [kind |-> "none", ok |-> TRUE]
    /\ call = [c \in Callers |-> NoCall]

\* two overlapping calls: "a" makes one call and "b" one read(), neither
\* waiting for the other; each call is explored up to MaxOverlapOps operations
NextOverlap ==
    \/ call["a"].kind = "none" /\ Invoke("a")
    \/ call["b"].kind = "none" /\ CallRead("b")
    \/ \E c \in Callers : Len(call[c].trace) < MaxOverlapOps /\ Step(c)

SpecOverlap == InitReady /\ [][NextOverlap]_vars

\* one call on the initialized instance, every awaited bus operation and
\* timer of which completes
NextOne ==
    \/ call["a"].kind = "none" /\ Invoke("a")
    \/ Step("a")

LiveSpec == InitReady /\ [][NextOne]_vars /\ WF_vars(Step("a"))

\* one init() on a fresh instance, its codes drawn from CodeInputs
NextCodes ==
    \/ call["a"].kind = "none" /\ \E g, t \in CodeInputs : CallInit("a", g, t)
    \/ InitOpen("a")
    \/ InitWriteOSR("a")
    \/ InitSettle("a")
    \/ InitReadAgen("a")
    \/ InitWriteCreg1("a")
    \/ InitWriteCreg3("a")

SpecCodes == Init /\ [][NextCodes]_vars

\* the instance after init(g, t) has resolved
Initialized(g, t) ==
    /\ i2c = 1
    /\ openHandles = 1
    /\ gainCode = g
    /\ timeCode = t
    /\ gainFactor = FactorOf(g)
    /\ integrationTimeMs = FactorOf(t)
    /\ dev = [dos |-> "Config", creg1 |-> PackCreg1(g, t), creg3 |-> CmdModeCreg3]
    /\ now = 0
    /\ calls = 0
    /\ lastEnded = [kind |-> "init", ok |-> TRUE]
    /\ call = [c \in Callers |-> NoCall]

\* one application of a conversion helper on an instance initialized with
\* any pair of 4-bit codes
InitConv == \E g, t \in 0..NibbleMask : Initialized(g, t)

NextConv ==
    \/ /\ call["a"].kind = "none"
       /\ \E raw \in RawInputs, sensitivity \in SensInputs :
             ApplyRawToIrradiance("a", raw, sensitivity)
    \/ /\ call["a"].kind = "none"
       /\ \E b0, b1 \in ByteInputs :
             ApplyDecode("a", <<b0, b1, 232, 3, 1, 0, 255, 255>>)

SpecConv == InitConv /\ [][NextConv]_vars

(* ---------------------------------------------------------------------- *)
(* Properties                                                              *)
(* ---------------------------------------------------------------------- *)

\* the bus operations of a trace, delays left out
BusOps(trace) == SelectSeq(trace, LAMBDA e : e.op # "delay")

\* the register operations and delays of a trace, the open left out
RegOps(trace) == SelectSeq(trace, LAMBDA e : e.op # "open")

IsOp(e, o, reg, addr, v) ==
    e.op = o /\ e.reg = reg /\ e.addr = addr /\ e.val = v /\ e.ok

ReadDone(c) == call[c].kind = "read" /\ call[c].pc = "done"
InitDone(c) == call[c].kind = "init" /\ call[c].pc = "done"

\* C1: a read() that resolved issued, in this order and nothing else: one
\* write of 0x06 | 0x08 to the OSR (address 0), one or more STATUS reads,
\* one 8-byte block read at the TEMP address, one write of 0x04 to the OSR;
\* and a result exists only once that last write is in the trace.
C1_ReadOrder ==
    \A c \in Callers :
        /\ ReadDone(c) =>
             LET ops == BusOps(call[c].trace)
                 n   == Len(ops)
             IN  /\ n >= 4
                 /\ IsOp(ops[1], "writeByte", "OSR", 0, 14)
                 /\ (ops[1].val \div 2) % 4 = 3 /\ (ops[1].val \div 8) % 2 = 1
                 /\ \A i \in 2..(n - 2) : IsOp(ops[i], "readByte", "STATUS", 1, 0)
                 /\ IsOp(ops[n - 1], "readI2cBlock", "TEMP", 2, 8)
                 /\ IsOp(ops[n], "writeByte", "OSR", 0, 4)
                 /\ (ops[n].val \div 8) % 2 = 0
        /\ call[c].result # NoResult =>
             /\ ReadDone(c)
             /\ IsOp(call[c].trace[Len(call[c].trace)], "writeByte", "OSR", 0, 4)

\* a read() resolved after polling the status register more than once
C1_Witness ==
    \E c \in Callers :
        /\ ReadDone(c)
        /\ Len(BusOps(call[c].trace)) > 5
        /\ call[c].result # NoResult

\* C2: with serialized calls, whatever calls aborted before, no status or
\* block read meets a device that is not in Measurement state and no
\* identity read or control-register write one that is not in
\* Configuration state.
C2_NoCrossStateAccess ==
    \A c \in Callers : call[c].crossed = {}

\* after a read() that aborted past its trigger and left the device in
\* Measurement state, an init() has read the identity register and written
\* both control registers
C2_Witness ==
    /\ InitDone("a")
    /\ call["a"].after = [kind |-> "read", ok |-> FALSE]
    /\ call["a"].entry.dos = "Meas"
    /\ {e.reg : e \in {call["a"].trace[i] : i \in 1..Len(call["a"].trace)}}
          = {"none", "OSR", "AGEN", "CREG1", "CREG3"}

\* C3: a read() whose polls never saw NDATA within the budget goes on to
\* the block read with a timeout warning, and fails only if a later bus
\* operation fails; the warning is there exactly when no poll saw NDATA.
C3_TimeoutIsNotFailure ==
    \A c \in Callers :
        LET r == call[c]
            n == Len(r.trace)
        IN  r.kind = "read" =>
              /\ r.pc \in {"r_block", "r_osr", "done"} =>
                    ("timeout" \in r.warn <=> ~r.sawNdata)
              /\ "timeout" \in r.warn =>
                    /\ ~r.sawNdata
                    /\ now - r.start >= 500
                    /\ r.pc \in {"r_block", "r_osr", "done", "failed"}
              /\ (r.pc = "failed" /\ n > 0) =>
                    /\ ~r.trace[n].ok
                    /\ ("timeout" \in r.warn \/ r.sawNdata) => r.trace[n].reg \in {"TEMP", "OSR"}
              /\ (r.pc = "done" /\ "timeout" \in r.warn) =>
                    /\ r.result # NoResult
                    /\ IsOp(r.trace[n - 1], "readI2cBlock", "TEMP", 2, 8)
                    /\ IsOp(r.trace[n], "writeByte", "OSR", 0, 4)

\* a read() resolved with a result after its polling timed out
C3_Witness ==
    \E c \in Callers :
        /\ ReadDone(c)
        /\ "timeout" \in call[c].warn
        /\ ~call[c].sawNdata
        /\ call[c].result # NoResult

\* C4: when every awaited bus operation and timer completes, a read() in
\* flight ends (resolved or rejected) even if no poll ever sees NDATA; and
\* every status read is issued less than 500 ms after polling began.
C4_ReadEnds ==
    /\ (call["a"].kind = "read" /\ InFlight("a")) ~> ~InFlight("a")
    /\ [](\A c \in Callers :
            (call[c].kind = "read" /\ call[c].pc \in {"r_status", "r_poll"})
               => call[c].polledAt < 500)

\* a read() has polled a full budget of on-time delays without seeing NDATA
\* and has left the loop for the block read
C4_Witness ==
    /\ call["a"].kind = "read"
    /\ call["a"].pc = "r_block"
    /\ ~call["a"].sawNdata
    /\ now - call["a"].start = 500
    /\ Len(BusOps(call["a"].trace)) = 101

Other(c) == CHOOSE o \in Callers : o # c

\* C5: nothing in the driver serializes calls: while one read() is in
\* flight a second read() starts and goes on to its own trigger write; and
\* a read() that accesses the status or result registers while the device
\* is not in Measurement state does so only after the other call's OSR
\* write landed in between.
C5_OverlapUnguarded ==
    \A c \in Callers :
        /\ (call[c].kind = "none" /\ call[Other(c)].kind = "read" /\ InFlight(Other(c)))
              => ENABLED (CallRead(c) /\ call'[c].pc = "r_trigger")
        /\ (call[c].kind = "read" /\ call[c].crossed # {}) =>
              /\ call[c].crossed \subseteq {"STATUS", "TEMP"}
              /\ \E i \in 1..Len(call[Other(c)].trace) :
                    call[Other(c)].trace[i].reg = "OSR" /\ call[Other(c)].trace[i].ok

\* of two overlapping read() calls, "a" has read the status register while
\* the device was in Configuration state, where "b" had put it back
C5_Witness ==
    /\ call["a"].kind = "read"
    /\ call["b"].kind = "read"
    /\ "STATUS" \in call["a"].crossed
    /\ call["b"].pc = "done"
    /\ call["a"].trace[1].ok

\* C6 as claimed: a call is rejected only if one of its own bus operations
\* failed.
C6_FailsOnlyOnBusFailure ==
    \A c \in Callers :
        call[c].pc = "failed" =>
            \E i \in 1..Len(call[c].trace) : ~call[c].trace[i].ok

\* C6 as amended: a call is rejected only if one of its own bus operations
\* failed, or if it is a read() made while no init() has assigned the bus
\* handle, which is rejected with a TypeError before any bus operation; an
\* id mismatch or a polling timeout alone never rejects a call.
C6_FailsOnlyOnBusFailureOrNoHandle ==
    \A c \in Callers :
        LET r == call[c]
            n == Len(r.trace)
        IN  r.pc = "failed" =>
              \/ /\ r.err = "bus"
                 /\ n > 0
                 /\ ~r.trace[n].ok
              \/ /\ r.err = "TypeError"
                 /\ r.kind = "read"
                 /\ n = 0
                 /\ i2c = 0

\* a read() whose polling timed out was then rejected by a failing block read
C6_Witness ==
    \E c \in Callers :
        /\ call[c].kind = "read"
        /\ call[c].pc = "failed"
        /\ call[c].err = "bus"
        /\ "timeout" \in call[c].warn
        /\ call[c].trace[Len(call[c].trace)].reg = "TEMP"

\* C7: init() warns exactly when the upper nibble of the identity byte is
\* not 2, is never rejected for it, and writes CREG1 and CREG3 with the
\* values the arguments alone determine.
C7_IdMismatchTolerated ==
    \A c \in Callers :
        LET r == call[c]
            n == Len(r.trace)
            packed == 16 * (r.gainArg % 16) + (r.timeArg % 16)
        IN  r.kind = "init" =>
              /\ (n >= 4 /\ r.trace[4].ok) =>
                    ("id" \in r.warn <=> (r.agen \div 16) % 16 # 2)
              /\ (r.pc = "failed" /\ n > 0) => ~r.trace[n].ok
              /\ r.pc = "done" =>
                    /\ n = 6
                    /\ IsOp(r.trace[5], "writeByte", "CREG1", 2, packed)
                    /\ IsOp(r.trace[6], "writeByte", "CREG3", 4, 0)
                    /\ dev.creg1 = packed
                    /\ dev.creg3 = 0

\* init() resolved although the identity byte was 0x51
C7_Witness ==
    \E c \in Callers :
        /\ InitDone(c)
        /\ call[c].agen = 81
        /\ "id" \in call[c].warn
        /\ dev.creg1 = 16 * (call[c].gainArg % 16) + (call[c].timeArg % 16)

\* C8: a failed bus operation is the last thing its call issues and rejects
\* the call; nothing is undone: a read() rejected at a poll or at the block
\* read has written no Configuration selector and leaves the device in
\* Measurement state, and an init() rejected after the open keeps the
\* handle and the parameters it stored.
C8_FailureStopsTheCall ==
    \A c \in Callers :
        LET r == call[c]
            n == Len(r.trace)
        IN  /\ \A i \in 1..(n - 1) : r.trace[i].ok
            /\ (n > 0 /\ ~r.trace[n].ok) => (r.pc = "failed" /\ r.err = "bus")
            /\ (r.pc = "failed" /\ r.err = "bus") => (n > 0 /\ ~r.trace[n].ok)
            /\ (r.kind = "read" /\ r.pc = "failed" /\ n > 0
                  /\ r.trace[n].reg \in {"STATUS", "TEMP"}) =>
                  /\ dev.dos = "Meas"
                  /\ \A i \in 1..n : ~(r.trace[i].reg = "OSR" /\ r.trace[i].val = 4)
            /\ (r.kind = "init" /\ r.pc = "failed" /\ n >= 2) =>
                  /\ i2c = openHandles /\ i2c > 0
                  /\ gainCode = r.gainArg % 16
                  /\ timeCode = r.timeArg % 16
            /\ (r.kind = "init" /\ r.pc = "failed" /\ n = 6) =>
                  dev.creg1 = 16 * gainCode + timeCode

\* a read() was rejected at its block read and the device is still in
\* Measurement state
C8_Witness ==
    \E c \in Callers :
        /\ call[c].kind = "read"
        /\ call[c].pc = "failed"
        /\ call[c].sawNdata
        /\ call[c].trace[Len(call[c].trace)].reg = "TEMP"
        /\ dev.dos = "Meas"

\* C9: a read() finds and leaves the stored gain and time parameters as
\* they were, starts with no buffer and no result, begins with its own
\* trigger write, and resolves with the value that the 8 bytes of its own
\* block read and the stored parameters determine.
C9_ReadIsFresh ==
    \A c \in Callers :
        LET r == call[c]
            raw(k) == r.buf[2 * k + 1] + 256 * r.buf[2 * k + 2]
            irr(x, milli) ==
                IF x = 0 THEN <<0, 1, 1>>
                ELSE <<x * 1000, milli, (2 ^ gainCode) * (2 ^ timeCode)>>
        IN  r.kind = "read" =>
              /\ gainCode = r.entry.gainCode
              /\ timeCode = r.entry.timeCode
              /\ gainFactor = r.entry.gainFactor
              /\ integrationTimeMs = r.entry.integrationTimeMs
              /\ r.pc \in {"r_trigger", "r_wait", "r_status", "r_poll", "r_block"} =>
                    (r.buf = <<>> /\ r.result = NoResult)
              /\ r.pc = "done" =>
                    /\ IsOp(r.trace[1], "writeByte", "OSR", 0, 14)
                    /\ r.result = [ uva         |-> irr(raw(1), 304),
                                    uvb         |-> irr(raw(2), 398),
                                    uvc         |-> irr(raw(3), 855),
                                    temperature |-> <<raw(0) - 10240, 256>> ]

\* on an initialized device a read() resolved right after another read()
\* had resolved, with non-zero counts
C9_Witness ==
    /\ ReadDone("a")
    /\ call["a"].after = [kind |-> "read", ok |-> TRUE]
    /\ dev.creg3 = 0
    /\ dev.creg1 = 16 * gainCode + timeCode
    /\ call["a"].result.uva = <<1000000, 304, gainFactor * integrationTimeMs>>

\* C10: an init() that resolved issued, after the open, in this order and
\* nothing else: OSR <- 0x04 (trigger bit clear), the 10 ms delay, a read of
\* the identity register, CREG1 <- the packed gain/time byte, CREG3 <- 0x00.
C10_InitOrder ==
    \A c \in Callers :
        InitDone(c) =>
            LET ops == RegOps(call[c].trace)
                packed == 16 * (call[c].gainArg % 16) + (call[c].timeArg % 16)
            IN  /\ Len(call[c].trace) = Len(ops) + 1
                /\ call[c].trace[1].op = "open"
                /\ Len(ops) = 5
                /\ IsOp(ops[1], "writeByte", "OSR", 0, 4)
                /\ (ops[1].val \div 8) % 2 = 0
                /\ IsOp(ops[2], "delay", "none", Undefined, 10)
                /\ IsOp(ops[3], "readByte", "AGEN", 1, 0)
                /\ IsOp(ops[4], "writeByte", "CREG1", 2, packed)
                /\ IsOp(ops[5], "writeByte", "CREG3", 4, 0)

\* init(19, -3) resolved with the expected identity
C10_Witness ==
    \E c \in Callers :
        /\ InitDone(c)
        /\ call[c].gainArg = 19
        /\ call[c].timeArg = -3
        /\ call[c].warn = {}
        /\ dev.creg1 = 61

\* an init() of caller c that has not yet completed its CREG3 write, or
\* that was rejected
InitUnfinished(c) ==
    call[c].kind = "init" /\ call[c].pc # "done"

\* C11: init() stores gainFactor and integrationTimeMs as its last step:
\* while the OSR write, the identity read or a control-register write of
\* the call has not completed, and after a call that was rejected, the two
\* stored values are the ones the call found.
C11_ParametersStoredLast ==
    \A c \in Callers :
        InitUnfinished(c) =>
            /\ gainFactor = call[c].entry.gainFactor
            /\ integrationTimeMs = call[c].entry.integrationTimeMs

\* C12: in a read(), the first STATUS poll is issued (waitForData entered,
\* at Date.now() = start) no earlier than the stored integration time, as
\* the last init() left it, plus 20 ms after the trigger write completed.
C12_FirstPollAfterConversionTime ==
    \A c \in Callers :
        LET r == call[c]
        IN  (r.kind = "read" /\ \E i \in 1..Len(r.trace) : r.trace[i].reg = "STATUS") =>
                /\ r.trace[1].reg = "OSR" /\ r.trace[1].ok
                /\ r.trace[2].op = "delay"
                /\ r.trace[3].reg = "STATUS"
                /\ r.entry.integrationTimeMs = 2 ^ r.entry.timeCode
                /\ r.start - r.trigAt >= (2 ^ r.entry.timeCode) + 20

\* the first poll of a read() has been issued exactly 2^7 + 20 ms after the
\* trigger write completed
C12_Witness ==
    /\ call["a"].kind = "read"
    /\ call["a"].pc = "r_status"
    /\ Len(call["a"].trace) = 2
    /\ integrationTimeMs = 128
    /\ call["a"].start - call["a"].trigAt = 148

\* C13: whatever integers init() is given, the byte it writes to CREG1 is
\* in 0..255, its upper nibble is the gain argument modulo 16 and its lower
\* nibble the time argument modulo 16 (the argument differs from the nibble
\* by a multiple of 16); the stored codes are these nibbles; and no code is
\* rejected: an init() is rejected only with a failed bus operation.
C13_CodesMaskedAndPacked ==
    \A c \in Callers :
        LET r == call[c]
            n == Len(r.trace)
            Congruent(x, nib) ==
                nib \in 0..15 /\ \E k \in (0 - MaxCode)..MaxCode : x = 16 * k + nib
        IN  r.kind = "init" =>
              /\ (n >= 1 /\ r.trace[1].ok) =>
                    /\ Congruent(r.gainArg, gainCode)
                    /\ Congruent(r.timeArg, timeCode)
              /\ n >= 5 =>
                    /\ r.trace[5].op = "writeByte" /\ r.trace[5].reg = "CREG1"
                    /\ r.trace[5].val \in 0..255
                    /\ Congruent(r.gainArg, r.trace[5].val \div 16)
                    /\ Congruent(r.timeArg, r.trace[5].val % 16)
                    /\ r.trace[5].ok => dev.creg1 = r.trace[5].val
              /\ r.pc = "failed" => (r.err = "bus" /\ ~r.trace[n].ok)

\* init(-20, 15) resolved: the device holds gain nibble 12 and time nibble 15
C13_Witness ==
    /\ InitDone("a")
    /\ call["a"].gainArg = -20
    /\ call["a"].timeArg = 15
    /\ dev.creg1 = 207

\* C14: once init(g, t) has stored its parameters, gainFactor is 2^g for g
\* in 0..11 and integrationTimeMs is 2^t for t in 0..14.
C14_FactorsArePowersOfTwo ==
    \A c \in Callers :
        LET r == call[c]
        IN  (r.kind = "init" /\ Len(r.trace) >= 1 /\ r.trace[1].ok) =>
              /\ r.gainArg \in 0..11 => gainFactor = 2 ^ r.gainArg
              /\ r.timeArg \in 0..14 => integrationTimeMs = 2 ^ r.timeArg

\* init(11, 14) resolved with factor 2048 and integration time 16384 ms
C14_Witness ==
    /\ InitDone("a")
    /\ call["a"].gainArg = 11
    /\ call["a"].timeArg = 14
    /\ gainFactor = 2048
    /\ integrationTimeMs = 16384

\* C15: the irradiance conversion returns exactly 0 when the raw count is 0
\* and when the sensitivity is 0, whatever gain and time are stored, and in
\* those cases forms no quotient (the value carries no divisor).
C15_ZeroGuard ==
    \A c \in Callers :
        LET r == call[c]
        IN  (r.kind = "rawToIrradiance" /\ (r.raw = 0 \/ r.sens = 0)) =>
                /\ r.value[1] = 0
                /\ r.value[2] = 1 /\ r.value[3] = 1

\* the conversion was applied to a non-zero raw count with sensitivity 0
\* under gain 2^11 and time 2^14
C15_Witness ==
    /\ call["a"].kind = "rawToIrradiance"
    /\ call["a"].raw = 65535
    /\ call["a"].sens = 0
    /\ gainFactor = 2048
    /\ integrationTimeMs = 16384
    /\ call["a"].value[1] = 0

RECURSIVE Gcd(_, _)
Gcd(a, b) == IF b = 0 THEN a ELSE Gcd(b, a % b)

\* x < y for two quotients <<n, s, k>> with positive divisors, by cross
\* multiplication after the factors common to both sides are cancelled
QuotientLess(x, y) ==
    LET gn == Gcd(x[1], y[1])
        gs == Gcd(x[2], y[2])
        gk == Gcd(x[3], y[3])
    IN  IF gn = 0 THEN FALSE
        ELSE (x[1] \div gn) * (y[2] \div gs) * (y[3] \div gk)
               < (y[1] \div gn) * (x[2] \div gs) * (x[3] \div gk)

\* C16: for a raw count > 0 and a sensitivity > 0, the irradiance computed
\* under the stored gain 2^g and time 2^t (g in 0..11, t in 0..14) is
\* strictly greater than the one computed from the same count with any
\* larger gain of the range and the same time, and with any larger time of
\* the range and the same gain.
C16_DecreasesWithGainAndTime ==
    \A c \in Callers :
        LET r == call[c]
        IN  (/\ r.kind = "rawToIrradiance" /\ r.raw > 0 /\ r.sens > 0
             /\ gainCode \in 0..11 /\ timeCode \in 0..14) =>
                /\ \A g \in (gainCode + 1)..11 :
                      QuotientLess(rawToIrradiance(r.raw, r.sens, 2 ^ g, integrationTimeMs),
                                   r.value)
                /\ \A t \in (timeCode + 1)..14 :
                      QuotientLess(rawToIrradiance(r.raw, r.sens, gainFactor, 2 ^ t),
                                   r.value)

\* the conversion was applied to the largest 16-bit count under gain 2^10
\* and time 2^13, each of which has a larger value in its range
C16_Witness ==
    /\ call["a"].kind = "rawToIrradiance"
    /\ call["a"].raw = 65535
    /\ call["a"].sens = 855
    /\ gainFactor = 1024
    /\ integrationTimeMs = 8192
    /\ call["a"].value = <<65535000, 855, 8388608>>

\* C17: the temperature of a decoded block is raw/256 - 40 for the raw value
\* at bytes 0 and 1 taken low byte first: -40 for raw 0, 0 for raw 256, the
\* integer raw/256 - 40 when raw is a multiple of 256, whatever gain and
\* time are stored.
C17_TemperatureFormula ==
    \A c \in Callers :
        LET r   == call[c]
            raw == r.buf[1] + 256 * r.buf[2]
            v   == r.result.temperature
        IN  r.kind = "decode" =>
                /\ v[2] > 0
                /\ 256 * v[1] = (raw - 10240) * v[2]
                /\ raw = 0 => v[1] = (0 - 40) * v[2]
                /\ raw = 256 => v[1] = 0
                /\ r.buf[1] = 0 => v[1] = (r.buf[2] - 40) * v[2]

\* C17, amended: as above, except that raw 256 gives -39 and it is raw
\* 10240 that gives 0.
C17_TemperatureFormulaAmended ==
    \A c \in Callers :
        LET r   == call[c]
            raw == r.buf[1] + 256 * r.buf[2]
            v   == r.result.temperature
        IN  r.kind = "decode" =>
                /\ v[2] > 0
                /\ 256 * v[1] = (raw - 10240) * v[2]
                /\ raw = 0 => v[1] = (0 - 40) * v[2]
                /\ raw = 256 => v[1] = (0 - 39) * v[2]
                /\ raw = 10240 => v[1] = 0
                /\ r.buf[1] = 0 => v[1] = (r.buf[2] - 40) * v[2]

\* a block with bytes 0x00 0x01 at offset 0 (raw 256) was decoded under
\* gain 2^11 and time 2^14 and gave -39 degrees
C17_Witness ==
    /\ call["a"].kind = "decode"
    /\ call["a"].buf[1] = 0
    /\ call["a"].buf[2] = 1
    /\ gainCode = 11
    /\ timeCode = 14
    /\ call["a"].result.temperature[1] = (0 - 39) * call["a"].result.temperature[2]

\* C18: whenever a read() has converted raw counts, the gainFactor and
\* integrationTimeMs it used are 2^gain and 2^time of the nibbles of the
\* byte last written successfully to the device's CREG1.
C18_ParametersMatchDevice ==
    \A c \in Callers :
        (ReadDone(c) /\ dev.creg1 # Undefined) =>
            /\ gainFactor = 2 ^ (dev.creg1 \div 16)
            /\ integrationTimeMs = 2 ^ (dev.creg1 % 16)

\* C19: the instance holds at most one open bus handle at any time.
C19_AtMostOneHandle == openHandles <= 1

\* C20: a read() invoked while no init() has opened the bus is rejected and
\* issues no bus operation: its trace is empty, the device is as the call
\* found it, and there is no buffer and no result.
C20_ReadWithoutBusDoesNothing ==
    \A c \in Callers :
        LET r == call[c]
        IN  (r.kind = "read" /\ i2c = 0) =>
                /\ r.pc = "failed"
                /\ r.err = "TypeError"
                /\ r.trace = <<>>
                /\ dev.dos = r.entry.dos
                /\ r.buf = <<>>
                /\ r.result = NoResult

\* a read() was rejected right after an init() that had failed at the open
C20_Witness ==
    /\ call["a"].kind = "read"
    /\ call["a"].pc = "failed"
    /\ call["a"].after = [kind |-> "init", ok |-> FALSE]
    /\ i2c = 0
    /\ openHandles = 0
    /\ calls = 2

====
